---------------------------- MODULE Spec2Model ----------------------------
(***************************************************************************)
(* Request-admission layer of the backend: the sliding-window evaluator    *)
(* (Lua script run by the store), the CircuitBreaker, the                  *)
(* RateLimiterService handlers (checkRateLimit, batchCheckRateLimit,       *)
(* clearRateLimit), RateLimitMonitoring (recordRequest, recordAlert,       *)
(* cleanup) and the express middleware of createRateLimiter.               *)
(*                                                                         *)
(* Time is in milliseconds, as Date.now().  One clock serves the client    *)
(* and the store.  A checkRateLimit call is a process whose steps are the  *)
(* store round trips it awaits; everything the handler does between two    *)
(* awaits is one step.  The store runs a script as one step (EVAL).        *)
(* The members of the window set are modelled by their scores only: the    *)
(* tiebreaker math.random() makes every admitted member a new member.      *)
(***************************************************************************)
EXTENDS Integers, Sequences, FiniteSets, TLC

VARIABLES
    clock,            \* Date.now() / the store's time, ms
    zset,             \* key -> [members: sorted Seq of scores, exp: ms or 0]
    burst,            \* key -> [exists, val, exp]  (the ":burst" counter)
    cbState,          \* CircuitBreaker.state
    failures,         \* CircuitBreaker.failures
    lastFailureTime,  \* CircuitBreaker.lastFailureTime
    threshold,        \* CircuitBreaker.threshold (constructor argument)
    timeout,          \* CircuitBreaker.timeout   (constructor argument)
    cfg,              \* the RateLimiterConfig the calls pass
    calls,            \* call id -> the call's position and locals
    started,          \* number of checkRateLimit calls begun (bounds the run)
    metrics,          \* minute -> [total, blocked, uniques]
    alertLen,         \* length of the alert list
    hist,             \* history, key -> evaluations so far: [n, minNow, lastAt]
    consec,           \* history: failed actions in a row since the last success
    batch,            \* the batchCheckRateLimit call: position and locals
    tasks,            \* recordRequest calls nobody awaits: Seq of [pc, id, info, minute]
    clears,           \* clearRateLimit calls in flight: Seq of [id, cid]
    lastClear,        \* the clearRateLimit call that settled last: [id, cid, ok]
    keyspace,         \* names of the per-minute metrics keys the store holds
    sweep,            \* the RateLimitMonitoring.cleanup call: position and locals
    opts,             \* the options createRateLimiter was given
    reqs,             \* requests passed on by next(), response not ended: Seq of [key, wrapped]
    res               \* the response the middleware or a route handler touched last

(* the state of the operations around checkRateLimit *)
(* the state of the express middleware *)
mwVars == << opts, reqs, res >>

auxVars == << mwVars, keyspace, sweep >>

extVars == << auxVars, batch, tasks, clears, lastClear >>

vars == << clock, zset, burst, cbState, failures, lastFailureTime,
           threshold, timeout, cfg, calls, started, metrics, alertLen,
           hist, consec, extVars >>

---------------------------------------------------------------------------
(* Bounds of the model *)

MaxTicks == 2

MaxChecks == 3

NumCalls == 2

(* Program constants *)

BURST_MULTIPLIER == 2

BURST_TTL == 10

THRESHOLD == 5

TIMEOUT == 60000

MsPerSecond == 1000

MsPerMinute == 60000

AlertsKept == 1000

Keys == {"k1", "k2"}

Calls == 1..NumCalls

Min(a, b) == IF a < b THEN a ELSE b

Max(a, b) == IF a > b THEN a ELSE b

CeilDiv(a, b) == (a + b - 1) \div b


---------------------------------------------------------------------------
(* RateLimiterConfig: the optional fields are 0 when the caller leaves     *)
(* them out, which `||` treats like undefined.                             *)

Cost(c) == IF c.cost = 0 THEN 1 ELSE c.cost

BurstMultiplier(c) == IF c.maxBurst = 0 THEN BURST_MULTIPLIER ELSE c.maxBurst

BurstTtl(c) == IF c.burstTtl = 0 THEN BURST_TTL ELSE c.burstTtl

---------------------------------------------------------------------------
(* The store's keys *)

NoZset == [members |-> << >>, exp |-> 0]

NoBurst == [exists |-> FALSE, val |-> 0, exp |-> 0]

RECURSIVE InsertSorted(_, _)
InsertSorted(s, x) ==
    IF s = << >> THEN << x >>
    ELSE IF x < Head(s) THEN << x >> \o s
    ELSE << Head(s) >> \o InsertSorted(Tail(s), x)

(* A key whose TTL has run out at store time t is gone. *)
ExpireZset(z, t) == IF z.exp # 0 /\ z.exp <= t THEN NoZset ELSE z

ExpireBurst(b, t) == IF b.exists /\ b.exp # 0 /\ b.exp <= t THEN NoBurst ELSE b

---------------------------------------------------------------------------
(* The Lua evaluator, statement by statement *)

(* mutant: nothing is old enough to be removed *)
InPurgeRangeNever(score, now, windowMs) == FALSE

(* ZREMRANGEBYSCORE key 0 (now - windowMs): both ends inclusive *)
InPurgeRange(score, now, windowMs) == 0 <= score /\ score <= now - windowMs

PurgeOld(members, now, windowMs) ==
    SelectSeq(members, LAMBDA s : ~InPurgeRange(s, now, windowMs))

(* tonumber(redis.call('GET', burstKey) or "0") *)
BurstCredits(b) == IF b.exists THEN b.val ELSE 0

(* mutant: the credits are added without the cap *)
EffectiveLimitUncapped(maxRequests, burstMultiplier, burstCredits) ==
    IF burstCredits > 0 THEN maxRequests + burstCredits ELSE maxRequests

EffectiveLimit(maxRequests, burstMultiplier, burstCredits) ==
    IF burstCredits > 0
    THEN Min(maxRequests * burstMultiplier, maxRequests + burstCredits)
    ELSE maxRequests

(* mutant: the credits found are not consumed *)
ConsumeCreditNever(b, burstCredits) == b

(* if burstCredits > 0 then ... DECRBY burstKey 1 (the TTL is kept) *)
ConsumeCredit(b, burstCredits) ==
    IF burstCredits > 0 THEN [b EXCEPT !.val = b.val - 1] ELSE b

(* mutant: > for >= *)
LimitExceededOffByOne(requestCount, cost, effectiveLimit) ==
    requestCount * cost > effectiveLimit

LimitExceeded(requestCount, cost, effectiveLimit) ==
    requestCount * cost >= effectiveLimit

(* mutant: the deny branch always answers now + windowMs *)
DenyReplyFromNow(members, now, windowMs, requestCount, effectiveLimit) ==
    << 0, now + windowMs, requestCount, effectiveLimit >>

(* the deny branch's reply {0, resetTime, requestCount, effectiveLimit} *)
DenyReply(members, now, windowMs, requestCount, effectiveLimit) ==
    IF Len(members) = 0
    THEN << 0, now + windowMs, requestCount, effectiveLimit >>
    ELSE << 0, Head(members) + windowMs, requestCount, effectiveLimit >>

(* ZADD key now member ; EXPIRE key ceil(windowMs / 1000) *)
AddRequest(members, now, windowMs, t) ==
    [members |-> InsertSorted(members, now),
     exp |-> t + CeilDiv(windowMs, MsPerSecond) * MsPerSecond]

UnderNormalLimit(requestCount, cost, maxRequests) ==
    requestCount * cost < maxRequests

(* mutant: INCR without the EXPIRE *)
AccrueCreditNoExpire(b, burstTtl, t) ==
    [exists |-> TRUE, val |-> (IF b.exists THEN b.val ELSE 0) + 1, exp |-> 0]

(* mutant: INCRBY 2 *)
AccrueCreditTwice(b, burstTtl, t) ==
    [exists |-> TRUE,
     val |-> (IF b.exists THEN b.val ELSE 0) + 2,
     exp |-> t + burstTtl * MsPerSecond]

(* INCR burstKey ; EXPIRE burstKey burstTtl *)
AccrueCredit(b, burstTtl, t) ==
    [exists |-> TRUE,
     val |-> (IF b.exists THEN b.val ELSE 0) + 1,
     exp |-> t + burstTtl * MsPerSecond]

AdmitReply(now, windowMs, requestCount, cost, effectiveLimit) ==
    << 1, now + windowMs,
       Max(0, effectiveLimit - (requestCount + 1) * cost), effectiveLimit >>

(* The whole script on the key pair (z, b), run by the store at time t    *)
(* with ARGV = now, windowMs, maxRequests, cost, burstMultiplier, burstTtl *)
Script(z, b, now, windowMs, maxRequests, cost, burstMultiplier, burstTtl, t) ==
    LET kept    == PurgeOld(z.members, now, windowMs)
        z1      == IF kept = << >> THEN NoZset ELSE [z EXCEPT !.members = kept]
        count   == Len(kept)
        credits == BurstCredits(b)
        limit   == EffectiveLimit(maxRequests, burstMultiplier, credits)
        b1      == ConsumeCredit(b, credits)
    IN  IF LimitExceeded(count, cost, limit)
        THEN [z |-> z1, b |-> b1,
              reply |-> DenyReply(kept, now, windowMs, count, limit)]
        ELSE [z |-> AddRequest(kept, now, windowMs, t),
              b |-> IF UnderNormalLimit(count, cost, maxRequests)
                    THEN AccrueCredit(b1, burstTtl, t) ELSE b1,
              reply |-> AdmitReply(now, windowMs, count, cost, limit)]

---------------------------------------------------------------------------
(* CircuitBreaker *)

(* mutant: the cooldown never runs out *)
CooldownNever(now, last, cooldown) == FALSE

(* isOpen(): now - this.lastFailureTime >= this.timeout *)
CooldownElapsed(now, last, cooldown) == now - last >= cooldown

(* isOpen() returns true: the call is answered by fallback() *)
IsOpen(st, now, last, cooldown) ==
    st = "OPEN" /\ ~CooldownElapsed(now, last, cooldown)

(* the state isOpen() leaves behind *)
StateAfterIsOpen(st, now, last, cooldown) ==
    IF st = "OPEN" /\ CooldownElapsed(now, last, cooldown)
    THEN "HALF_OPEN" ELSE st

(* mutant: onSuccess() closes the breaker from any state *)
OnSuccessStateAlwaysClosed(st) == "CLOSED"

OnSuccessState(st) == IF st = "HALF_OPEN" THEN "CLOSED" ELSE st

(* mutant: onSuccess() leaves the failure count *)
OnSuccessFailuresKept(st, f) == f

(* mutant: every success clears the failure count *)
OnSuccessFailuresCleared(st, f) == 0

OnSuccessFailures(st, f) == IF st = "HALF_OPEN" THEN 0 ELSE f

(* mutant: onFailure() without this.failures++ *)
OnFailureFailuresSame(f) == f

OnFailureFailures(f) == f + 1

(* mutant: > for >= *)
OnFailureStateStrict(st, f, th) == IF f > th THEN "OPEN" ELSE st

OnFailureState(st, f, th) == IF f >= th THEN "OPEN" ELSE st

(* try { result = await action(); this.onSuccess(); return result } *)
OnSuccess ==
    /\ cbState' = OnSuccessState(cbState)
    /\ failures' = OnSuccessFailures(cbState, failures)
    /\ UNCHANGED lastFailureTime

(* catch (error) { this.onFailure(); return fallback() } *)
OnFailure ==
    /\ failures' = OnFailureFailures(failures)
    /\ lastFailureTime' = clock
    /\ cbState' = OnFailureState(cbState, OnFailureFailures(failures), threshold)

(* CircuitBreaker.reset(), reached through resetCircuitBreaker() *)
Reset ==
    /\ cbState # "CLOSED" \/ failures # 0 \/ lastFailureTime # 0
    /\ failures' = 0
    /\ cbState' = "CLOSED"
    /\ lastFailureTime' = 0
    /\ consec' = 0
    /\ UNCHANGED << extVars, clock, zset, burst, threshold, timeout, cfg, calls,
                    started, metrics, alertLen, hist >>

---------------------------------------------------------------------------
(* RateLimiterService.checkRateLimit *)

NoInfo == [allowed |-> FALSE, remaining |-> 0, resetTime |-> 0, limit |-> 0]

(* a call slot: pc is the await the call is suspended at; outcome is how   *)
(* execute() ended; trial marks the call whose isOpen() left HALF_OPEN;    *)
(* seq, span and gap are history: the evaluation's number on its bucket,   *)
(* the time from the earliest now of the bucket's checks to this           *)
(* evaluation, and the time from the bucket's previous evaluation to now   *)
IdleCall ==
    [pc |-> "idle", now |-> 0, key |-> "k1", trial |-> FALSE,
     info |-> NoInfo, result |-> NoInfo, minute |-> 0, outcome |-> "none",
     seq |-> 0, span |-> 0, gap |-> 0]

(* a returned call's record is kept until the next step of any call *)
Settled ==
    [c \in Calls |-> IF calls[c].pc = "done" THEN IdleCall ELSE calls[c]]

(* mutant: the fail-open object of batchCheckRateLimit *)
FailOpenBatch(now, c) ==
    [allowed |-> TRUE, remaining |-> c.maxRequests - 1,
     resetTime |-> now + c.windowMs, limit |-> c.maxRequests]

(* the fallback of execute, and the same object of the catch block *)
FailOpen(now, c) ==
    [allowed |-> TRUE, remaining |-> 1,
     resetTime |-> now + c.windowMs, limit |-> c.maxRequests]

(* const info = { allowed: allowed === 1, remaining: Math.max(0, remaining), ... } *)
BuildInfo(reply) ==
    [allowed |-> (reply[1] = 1), remaining |-> Max(0, reply[3]),
     resetTime |-> reply[2], limit |-> reply[4]]

(* recordRequest: if (!info.allowed) { ... if (info.remaining < info.limit * 0.1) *)
HighUsage(info) == ~info.allowed /\ info.remaining * 10 < info.limit

(* execute(action, fallback) up to the action's first await: isOpen()     *)
(* either answers with fallback() or lets the action start.  A slot whose  *)
(* call has returned takes the next call; the slots are interchangeable,   *)
(* so the next call takes the lowest free one.                             *)
Begin(c, k, firstAwait) ==
    /\ calls[c].pc \in {"idle", "done"}
    /\ \A d \in Calls : d < c => calls[d].pc \notin {"idle", "done"}
    /\ started < MaxChecks
    /\ started' = started + 1
    /\ IF IsOpen(cbState, clock, lastFailureTime, timeout)
       THEN /\ calls' = [Settled EXCEPT ![c] =
                   [IdleCall EXCEPT !.pc = "done", !.now = clock, !.key = k,
                        !.result = FailOpen(clock, cfg), !.outcome = "open"]]
            /\ UNCHANGED cbState
       ELSE /\ calls' = [Settled EXCEPT ![c] =
                   [IdleCall EXCEPT !.pc = firstAwait, !.now = clock, !.key = k,
                        !.trial = (cbState = "OPEN")]]
            /\ cbState' = StateAfterIsOpen(cbState, clock, lastFailureTime, timeout)
    /\ UNCHANGED << extVars, clock, zset, burst, failures, lastFailureTime,
                    threshold, timeout, cfg, metrics, alertLen, hist, consec >>

(* checkRateLimit begins: now = Date.now(), then execute(); the action     *)
(* first awaits loadScript()'s redis.eval(script, [], [])                  *)
CheckStart(c, k) == Begin(c, k, "load")

(* the action threw: execute's catch runs onFailure() and returns fallback() *)
ActionThrows(c) ==
    /\ OnFailure
    /\ calls' = [Settled EXCEPT ![c].pc = "done",
                              ![c].result = FailOpen(calls[c].now, cfg),
                              ![c].outcome = "failed", ![c].seq = 0,
                              ![c].span = 0, ![c].gap = 0]
    /\ UNCHANGED << extVars, clock, zset, burst, threshold, timeout, cfg,
                    started, metrics, alertLen, hist, consec >>

(* loadScript(): the store answers redis.eval(script, [], []) *)
LoadScriptOk(c) ==
    /\ calls[c].pc = "load"
    /\ calls' = [Settled EXCEPT ![c].pc = "eval"]
    /\ UNCHANGED << extVars, clock, zset, burst, cbState, failures,
                    lastFailureTime, threshold, timeout, cfg, started,
                    metrics, alertLen, hist, consec >>

(* loadScript(): the eval fails, throw new Error(SCRIPT_LOAD) *)
LoadScriptFail(c) ==
    /\ calls[c].pc = "load"
    /\ ActionThrows(c)

(* the reply of the script for call c, run now by the store *)
RunScript(c) ==
    Script(zset[calls[c].key], burst[calls[c].key], calls[c].now,
           cfg.windowMs, cfg.maxRequests, Cost(cfg), BurstMultiplier(cfg),
           BurstTtl(cfg), clock)

(* The store runs the script on [key, burstKey] and answers; the handler   *)
(* builds info and calls recordRequest, which runs up to its first await.  *)
(* With track, the history of the bucket's evaluations is kept.            *)
Evaluate(c, track) ==
    /\ calls[c].pc = "eval"
    /\ LET k == calls[c].key
           r == RunScript(c)
           info == BuildInfo(r.reply)
           first == IF hist[k].n = 0 THEN calls[c].now
                    ELSE Min(hist[k].minNow, calls[c].now)
       IN  /\ zset' = [zset EXCEPT ![k] = r.z]
           /\ burst' = [burst EXCEPT ![k] = r.b]
           /\ hist' = IF track
                      THEN [hist EXCEPT ![k] =
                              [n |-> @.n + 1, minNow |-> first, lastAt |-> clock]]
                      ELSE hist
           /\ calls' = [Settled EXCEPT
                   ![c].info = info,
                   ![c].minute = clock \div MsPerMinute,
                   ![c].seq = IF track THEN hist[k].n + 1 ELSE 0,
                   ![c].span = IF track THEN clock - first ELSE 0,
                   ![c].gap = IF track /\ hist[k].n > 0
                              THEN calls[c].now - hist[k].lastAt ELSE 0,
                   ![c].pc = IF HighUsage(info) THEN "lpush" ELSE "exec"]
    /\ UNCHANGED << extVars, clock, cbState, failures, lastFailureTime, threshold,
                    timeout, cfg, started, metrics, alertLen, consec >>

EvalOk(c) == Evaluate(c, FALSE)

EvalTracked(c) == Evaluate(c, TRUE)

(* the EVAL commands the store has run for a call suspended at pc: the    *)
(* action awaits loadScript(), whose redis.eval(script, [], []) runs the   *)
(* script with no keys, and then redis.eval(..., [key, burstKey], [...])   *)
ScriptRuns(pc) ==
    CASE pc = "load" -> 0
      [] pc = "eval" -> 1
      [] pc \in {"lpush", "ltrim", "exec"} -> 2
      [] OTHER -> 0

(* the script's eval fails (network, timeout): the action throws *)
EvalFail(c) ==
    /\ calls[c].pc = "eval"
    /\ ActionThrows(c)

(* recordAlert: await this.redis.lpush(alerts key, alert) *)
LpushOk(c) ==
    /\ calls[c].pc = "lpush"
    /\ alertLen' = alertLen + 1
    /\ calls' = [Settled EXCEPT ![c].pc = "ltrim"]
    /\ UNCHANGED << extVars, clock, zset, burst, cbState, failures,
                    lastFailureTime, threshold, timeout, cfg, started,
                    metrics, hist, consec >>

(* recordAlert: await this.redis.ltrim(alerts key, 0, 999) *)
LtrimOk(c) ==
    /\ calls[c].pc = "ltrim"
    /\ alertLen' = Min(alertLen, AlertsKept)
    /\ calls' = [Settled EXCEPT ![c].pc = "exec"]
    /\ UNCHANGED << extVars, clock, zset, burst, cbState, failures,
                    lastFailureTime, threshold, timeout, cfg, started,
                    metrics, hist, consec >>

(* recordRequest: await pipeline.exec() succeeds; the action returns info, *)
(* execute runs onSuccess() and checkRateLimit returns the result          *)
ExecOk(c) ==
    /\ calls[c].pc = "exec"
    /\ LET m == calls[c].minute
           i == calls[c].info
       IN  metrics' = [metrics EXCEPT ![m] =
               [total |-> @.total + 1,
                blocked |-> @.blocked + (IF i.allowed THEN 0 ELSE 1),
                uniques |-> @.uniques \cup {calls[c].key}]]
    /\ OnSuccess
    /\ calls' = [Settled EXCEPT ![c].pc = "done", ![c].result = calls[c].info,
                              ![c].outcome = "ok", ![c].seq = 0,
                              ![c].span = 0, ![c].gap = 0]
    /\ UNCHANGED << extVars, clock, zset, burst, threshold, timeout, cfg,
                    started, alertLen, hist, consec >>

(* a store call of recordRequest (lpush, ltrim or pipeline.exec) fails:    *)
(* recordRequest rejects inside the breaker's action                       *)
MonitoringFail(c) ==
    /\ calls[c].pc \in {"lpush", "ltrim", "exec"}
    /\ ActionThrows(c)

(* no batchCheckRateLimit call is running *)
NoBatch ==
    [pc |-> "idle", now |-> 0, ids |-> << >>, result |-> << >>,
     outcome |-> "none"]

(* no response has been touched yet; statusCode starts at 200.  info,     *)
(* headers, body and nextCalls are what the middleware's own step saw and  *)
(* did; forwarded says that the request went through next(); refunds       *)
(* counts the clearRateLimit calls of the response's end                   *)
NoRes ==
    [key |-> "k1", info |-> NoInfo, headers |-> << >>, status |-> 200,
     body |-> << >>, nextCalls |-> 0, forwarded |-> FALSE, ended |-> FALSE,
     refunds |-> 0]

(* no cleanup call is running *)
NoSweep == [pc |-> "idle", now |-> 0, retention |-> 0, ok |-> FALSE]

---------------------------------------------------------------------------
(* Time passes; keys whose TTL has run out disappear *)

TickMs == MsPerSecond \div 2

Tick ==
    /\ clock < MaxTicks * TickMs
    /\ clock' = clock + TickMs
    /\ zset' = [k \in Keys |-> ExpireZset(zset[k], clock + TickMs)]
    /\ burst' = [k \in Keys |-> ExpireBurst(burst[k], clock + TickMs)]
    /\ UNCHANGED << extVars, cbState, failures, lastFailureTime, threshold, timeout,
                    cfg, calls, started, metrics, alertLen, hist, consec >>

---------------------------------------------------------------------------
(* Configurations and specifications *)

Config(m, w, c, mb, ttl) ==
    [maxRequests |-> m, windowMs |-> w, cost |-> c, maxBurst |-> mb,
     burstTtl |-> ttl]

(* the defaults (cost 1, multiplier 2, TTL 10 s); a multiplier of 1, where  *)
(* the cap decides the limit; and a cost larger than maxRequests, where    *)
(* the second check is denied with remaining * 10 < limit (an alert)       *)
EvalConfigs ==
    { Config(1, 1000, 0, 0, 0),  Config(2, 1000, 1, 1, 1),
      Config(11, 1000, 12, 0, 1) }

Minutes == 0 .. ((MaxTicks * TickMs) \div MsPerMinute)

InitCommon ==
    /\ clock = 0
    /\ zset = [k \in Keys |-> NoZset]
    /\ burst = [k \in Keys |-> NoBurst]
    /\ cbState = "CLOSED"
    /\ failures = 0
    /\ lastFailureTime = 0
    /\ calls = [c \in Calls |-> IdleCall]
    /\ started = 0
    /\ metrics = [m \in Minutes |-> [total |-> 0, blocked |-> 0, uniques |-> {}]]
    /\ alertLen = 0
    /\ hist = [k \in Keys |-> [n |-> 0, minNow |-> 0, lastAt |-> 0]]
    /\ consec = 0
    /\ batch = NoBatch
    /\ tasks = << >>
    /\ clears = << >>
    /\ lastClear = [id |-> "k1", cid |-> "k1", ok |-> FALSE]
    /\ keyspace = {}
    /\ sweep = NoSweep
    /\ opts = [skipFailedRequests |-> FALSE]
    /\ reqs = << >>
    /\ res = NoRes

(* The service over a healthy store: new CircuitBreaker(THRESHOLD, TIMEOUT) *)
InitEval ==
    /\ InitCommon
    /\ threshold = THRESHOLD
    /\ timeout = TIMEOUT
    /\ cfg \in EvalConfigs

NextEval ==
    \/ \E c \in Calls, k \in {"k1"} : CheckStart(c, k)
    \/ \E c \in Calls : LoadScriptOk(c)
    \/ \E c \in Calls : EvalTracked(c)
    \/ \E c \in Calls : LpushOk(c)
    \/ \E c \in Calls : LtrimOk(c)
    \/ \E c \in Calls : ExecOk(c)
    \/ Tick

SpecEval == InitEval /\ [][NextEval]_vars

(* The service over a store that may fail any call.  The service builds   *)
(* its breaker with new CircuitBreaker(THRESHOLD, TIMEOUT); the breakers   *)
(* with a lower threshold and a shorter timeout open and cool down within  *)
(* the bounds of the model.                                                *)
Breakers == { << THRESHOLD, TIMEOUT >>, << 1, 2 * TickMs >> }

(* a configuration that admits, denies and raises alerts within the bounds *)
FaultConfigs == {Config(11, 1000, 11, 1, 1)}

Init ==
    /\ InitCommon
    /\ \E b \in Breakers : threshold = b[1] /\ timeout = b[2]
    /\ cfg \in FaultConfigs

Next ==
    \/ \E c \in Calls, k \in {"k1"} : CheckStart(c, k)
    \/ \E c \in Calls : LoadScriptOk(c)
    \/ \E c \in Calls : LoadScriptFail(c)
    \/ \E c \in Calls : EvalOk(c)
    \/ \E c \in Calls : EvalFail(c)
    \/ \E c \in Calls : LpushOk(c)
    \/ \E c \in Calls : LtrimOk(c)
    \/ \E c \in Calls : ExecOk(c)
    \/ \E c \in Calls : MonitoringFail(c)
    \/ Tick

Spec == Init /\ [][Next]_vars

(* CircuitBreaker.execute(action, fallback) on its own: the action is one  *)
(* await that resolves or rejects                                          *)
ActionValue == NoInfo

Execute(c) == Begin(c, "k1", "action")

ActionOk(c) ==
    /\ calls[c].pc = "action"
    /\ OnSuccess
    /\ consec' = 0
    /\ calls' = [Settled EXCEPT ![c].pc = "done", ![c].result = ActionValue,
                              ![c].outcome = "ok"]
    /\ UNCHANGED << extVars, clock, zset, burst, threshold, timeout, cfg,
                    started, metrics, alertLen, hist >>

ActionFail(c) ==
    /\ calls[c].pc = "action"
    /\ OnFailure
    /\ consec' = consec + 1
    /\ calls' = [Settled EXCEPT ![c].pc = "done",
                              ![c].result = FailOpen(calls[c].now, cfg),
                              ![c].outcome = "failed"]
    /\ UNCHANGED << extVars, clock, zset, burst, threshold, timeout, cfg,
                    started, metrics, alertLen, hist >>

CbThresholds == {1, 2, 3}

CbTimeouts == {TickMs, 2 * TickMs}

InitCB ==
    /\ InitCommon
    /\ threshold \in CbThresholds
    /\ timeout \in CbTimeouts
    /\ cfg = Config(1, 1000, 0, 0, 0)

NextCB ==
    \/ \E c \in Calls : Execute(c)
    \/ \E c \in Calls : ActionOk(c)
    \/ \E c \in Calls : ActionFail(c)
    \/ Reset
    \/ Tick

SpecCB == InitCB /\ [][NextCB]_vars

---------------------------------------------------------------------------
(* RateLimiterService.batchCheckRateLimit *)

(* getKeyPrefix(config): `ratelimit:${config.type}:${config.identifier}`;  *)
(* with one type, the buckets are named by the identifier in the config    *)
GetKeyPrefix(config) == config.identifier

Range(s) == {s[i] : i \in DOMAIN s}

(* the identifier lists passed to batchCheckRateLimit *)
BatchInputs == { << "k1" >>, << "k1", "k1" >>, << "k1", "k2" >> }

(* the fallback of the batch: one reply                                    *)
(* [1, now + windowMs, maxRequests - 1, maxRequests] per identifier        *)
BatchFallback(ids, now, c) ==
    [i \in DOMAIN ids |->
        << 1, now + c.windowMs, c.maxRequests - 1, c.maxRequests >>]

(* the pipeline of evals, run by the store in the order they were queued,  *)
(* each on the key pair of getKeyPrefix({ ...config, identifier })         *)
RECURSIVE RunPipeline(_, _, _, _)
RunPipeline(ids, z, b, now) ==
    IF ids = << >> THEN [z |-> z, b |-> b, replies |-> << >>]
    ELSE LET k == GetKeyPrefix([identifier |-> Head(ids)])
             r == Script(z[k], b[k], now, cfg.windowMs, cfg.maxRequests,
                         Cost(cfg), BurstMultiplier(cfg), BurstTtl(cfg), clock)
             rest == RunPipeline(Tail(ids), [z EXCEPT ![k] = r.z],
                                 [b EXCEPT ![k] = r.b], now)
         IN  [z |-> rest.z, b |-> rest.b,
              replies |-> << r.reply >> \o rest.replies]

(* rateLimitMap after results.forEach: a later entry of the same           *)
(* identifier replaces the earlier one                                     *)
RateLimitMap(ids, replies) ==
    [id \in Range(ids) |->
        LET last == CHOOSE i \in DOMAIN ids :
                        /\ ids[i] = id
                        /\ \A j \in DOMAIN ids : ids[j] = id => j <= i
        IN  BuildInfo(replies[last])]

(* the recordRequest calls of results.forEach, each run up to its first    *)
(* await; nobody awaits them and .catch(console.error) takes their errors  *)
RecordTasks(ids, replies) ==
    [i \in DOMAIN ids |->
        [pc |-> IF HighUsage(BuildInfo(replies[i])) THEN "lpush" ELSE "exec",
         id |-> ids[i], info |-> BuildInfo(replies[i]),
         minute |-> clock \div MsPerMinute]]

(* the rest of batchCheckRateLimit once execute() has returned replies *)
BatchReturns(replies, outcome) ==
    /\ batch' = [batch EXCEPT !.pc = "done", !.outcome = outcome,
                       !.result = RateLimitMap(batch.ids, replies)]
    /\ tasks' = tasks \o RecordTasks(batch.ids, replies)

(* batchCheckRateLimit begins: now, pipeline, await this.loadScript();      *)
(* started counts the identifiers checked                                  *)
BatchStart(ids) ==
    /\ batch.pc \in {"idle", "done"}
    /\ started + Len(ids) <= MaxChecks
    /\ started' = started + Len(ids)
    /\ batch' = [NoBatch EXCEPT !.pc = "load", !.now = clock, !.ids = ids]
    /\ UNCHANGED << auxVars, clears, lastClear, clock, zset, burst, cbState, failures, lastFailureTime,
                    threshold, timeout, cfg, calls, metrics, alertLen, hist,
                    consec, tasks >>

(* loadScript() resolves; execute() either answers with the fallback or    *)
(* queues the evals and awaits pipeline.exec()                             *)
BatchLoadOk ==
    /\ batch.pc = "load"
    /\ IF IsOpen(cbState, clock, lastFailureTime, timeout)
       THEN /\ BatchReturns(BatchFallback(batch.ids, batch.now, cfg), "open")
            /\ UNCHANGED cbState
       ELSE /\ batch' = [batch EXCEPT !.pc = "exec"]
            /\ cbState' = StateAfterIsOpen(cbState, clock, lastFailureTime, timeout)
            /\ UNCHANGED tasks
    /\ UNCHANGED << auxVars, clears, lastClear, clock, zset, burst, failures, lastFailureTime, threshold,
                    timeout, cfg, calls, started, metrics, alertLen, hist,
                    consec >>

(* loadScript() rejects: the await is before the try, the call rejects *)
BatchLoadFail ==
    /\ batch.pc = "load"
    /\ batch' = [batch EXCEPT !.pc = "done", !.outcome = "raised"]
    /\ UNCHANGED << auxVars, clears, lastClear, clock, zset, burst, cbState, failures, lastFailureTime,
                    threshold, timeout, cfg, calls, started, metrics,
                    alertLen, hist, consec, tasks >>

(* pipeline.exec() resolves: onSuccess(), the map is built and returned *)
BatchExecOk ==
    /\ batch.pc = "exec"
    /\ LET r == RunPipeline(batch.ids, zset, burst, batch.now)
       IN  /\ zset' = r.z
           /\ burst' = r.b
           /\ BatchReturns(r.replies, "ok")
    /\ OnSuccess
    /\ UNCHANGED << auxVars, clears, lastClear, clock, threshold, timeout, cfg, calls, started, metrics,
                    alertLen, hist, consec >>

(* pipeline.exec() rejects: onFailure(), the fallback's replies *)
BatchExecFail ==
    /\ batch.pc = "exec"
    /\ OnFailure
    /\ BatchReturns(BatchFallback(batch.ids, batch.now, cfg), "failed")
    /\ UNCHANGED << auxVars, clears, lastClear, clock, zset, burst, threshold, timeout, cfg, calls,
                    started, metrics, alertLen, hist, consec >>

RemoveAt(s, i) == [j \in 1 .. (Len(s) - 1) |-> IF j < i THEN s[j] ELSE s[j + 1]]

(* an unawaited recordRequest: recordAlert's lpush *)
TaskLpushOk(i) ==
    /\ i \in DOMAIN tasks
    /\ tasks[i].pc = "lpush"
    /\ alertLen' = alertLen + 1
    /\ tasks' = [tasks EXCEPT ![i].pc = "ltrim"]
    /\ UNCHANGED << auxVars, clears, lastClear, clock, zset, burst, cbState, failures, lastFailureTime,
                    threshold, timeout, cfg, calls, started, metrics, hist,
                    consec, batch >>

(* an unawaited recordRequest: recordAlert's ltrim *)
TaskLtrimOk(i) ==
    /\ i \in DOMAIN tasks
    /\ tasks[i].pc = "ltrim"
    /\ alertLen' = Min(alertLen, AlertsKept)
    /\ tasks' = [tasks EXCEPT ![i].pc = "exec"]
    /\ UNCHANGED << auxVars, clears, lastClear, clock, zset, burst, cbState, failures, lastFailureTime,
                    threshold, timeout, cfg, calls, started, metrics, hist,
                    consec, batch >>

(* an unawaited recordRequest: pipeline.exec() of hincrby and sadd *)
TaskExecOk(i) ==
    /\ i \in DOMAIN tasks
    /\ tasks[i].pc = "exec"
    /\ metrics' = [metrics EXCEPT ![tasks[i].minute] =
           [total |-> @.total + 1,
            blocked |-> @.blocked + (IF tasks[i].info.allowed THEN 0 ELSE 1),
            uniques |-> @.uniques \cup {tasks[i].id}]]
    /\ tasks' = RemoveAt(tasks, i)
    /\ UNCHANGED << auxVars, clears, lastClear, clock, zset, burst, cbState, failures, lastFailureTime,
                    threshold, timeout, cfg, calls, started, alertLen, hist,
                    consec, batch >>

(* an unawaited recordRequest rejects: console.error *)
TaskFail(i) ==
    /\ i \in DOMAIN tasks
    /\ tasks' = RemoveAt(tasks, i)
    /\ UNCHANGED << auxVars, clears, lastClear, clock, zset, burst, cbState, failures, lastFailureTime,
                    threshold, timeout, cfg, calls, started, metrics,
                    alertLen, hist, consec, batch >>

(* the most recordRequest calls a run leaves unanswered *)
TaskSlots == 1 .. MaxChecks

NextBatch ==
    \/ \E ids \in BatchInputs : BatchStart(ids)
    \/ BatchLoadOk
    \/ BatchLoadFail
    \/ BatchExecOk
    \/ BatchExecFail
    \/ \E i \in TaskSlots : TaskLpushOk(i)
    \/ \E i \in TaskSlots : TaskLtrimOk(i)
    \/ \E i \in TaskSlots : TaskExecOk(i)
    \/ \E i \in TaskSlots : TaskFail(i)
    \/ Tick

SpecBatch == Init /\ [][NextBatch]_vars

---------------------------------------------------------------------------
(* RateLimiterService.clearRateLimit *)

(* clearRateLimit(identifier, config) begins: the key is                   *)
(* getKeyPrefix({ ...config, identifier }); the pipeline of the two DELs   *)
(* is sent.  cid is the identifier in the config passed.                   *)
ClearRateLimit(id, cid) ==
    /\ started < MaxChecks
    /\ started' = started + 1
    /\ clears' = Append(clears, [id |-> id, cid |-> cid])
    /\ UNCHANGED << auxVars, clock, zset, burst, cbState, failures, lastFailureTime,
                    threshold, timeout, cfg, calls, metrics, alertLen, hist,
                    consec, batch, tasks, lastClear >>

(* the pipeline's exec() resolves: DEL key, DEL burstKey *)
ClearExecOk(i) ==
    /\ i \in DOMAIN clears
    /\ LET key == GetKeyPrefix([identifier |-> clears[i].id])
       IN  /\ zset' = [zset EXCEPT ![key] = NoZset]
           /\ burst' = [burst EXCEPT ![key] = NoBurst]
    /\ lastClear' = [id |-> clears[i].id, cid |-> clears[i].cid, ok |-> TRUE]
    /\ clears' = RemoveAt(clears, i)
    /\ UNCHANGED << auxVars, clock, cbState, failures, lastFailureTime, threshold,
                    timeout, cfg, calls, started, metrics, alertLen, hist,
                    consec, batch, tasks >>

(* the pipeline's exec() rejects: console.error, nothing is raised *)
ClearExecFail(i) ==
    /\ i \in DOMAIN clears
    /\ lastClear' = [id |-> clears[i].id, cid |-> clears[i].cid, ok |-> FALSE]
    /\ clears' = RemoveAt(clears, i)
    /\ UNCHANGED << auxVars, clock, zset, burst, cbState, failures, lastFailureTime,
                    threshold, timeout, cfg, calls, started, metrics,
                    alertLen, hist, consec, batch, tasks >>

(* checkRateLimit(identifier, config): the key is getKeyPrefix(config),    *)
(* the identifier argument goes to recordRequest only                      *)
CheckRateLimit(c, id, cid) == CheckStart(c, GetKeyPrefix([identifier |-> cid]))

ClearSlots == 1 .. MaxChecks

(* checks and clears of a service over a healthy store *)
InitClear ==
    /\ InitCommon
    /\ threshold = THRESHOLD
    /\ timeout = TIMEOUT
    /\ cfg \in FaultConfigs

NextClear ==
    \/ \E c \in Calls, id \in Keys, cid \in Keys : CheckRateLimit(c, id, cid)
    \/ \E c \in Calls : LoadScriptOk(c)
    \/ \E c \in Calls : EvalOk(c)
    \/ \E c \in Calls : LpushOk(c)
    \/ \E c \in Calls : LtrimOk(c)
    \/ \E c \in Calls : ExecOk(c)
    \/ \E id \in Keys, cid \in Keys : ClearRateLimit(id, cid)
    \/ \E i \in ClearSlots : ClearExecOk(i)
    \/ \E i \in ClearSlots : ClearExecFail(i)
    \/ Tick

SpecClear == InitClear /\ [][NextClear]_vars

---------------------------------------------------------------------------
(* The service when the alert list of the type is already full: the state  *)
(* a thousand alerts after the start, in a minute without requests so far  *)
InitAlerts ==
    /\ clock = 0
    /\ zset = [k \in Keys |-> NoZset]
    /\ burst = [k \in Keys |-> NoBurst]
    /\ cbState = "CLOSED"
    /\ failures = 0
    /\ lastFailureTime = 0
    /\ threshold = THRESHOLD
    /\ timeout = TIMEOUT
    /\ cfg \in FaultConfigs
    /\ calls = [c \in Calls |-> IdleCall]
    /\ started = 0
    /\ metrics = [m \in Minutes |-> [total |-> 0, blocked |-> 0, uniques |-> {}]]
    /\ alertLen = AlertsKept
    /\ hist = [k \in Keys |-> [n |-> 0, minNow |-> 0, lastAt |-> 0]]
    /\ consec = 0
    /\ batch = NoBatch
    /\ tasks = << >>
    /\ clears = << >>
    /\ lastClear = [id |-> "k1", cid |-> "k1", ok |-> FALSE]
    /\ keyspace = {}
    /\ sweep = NoSweep
    /\ opts = [skipFailedRequests |-> FALSE]
    /\ reqs = << >>
    /\ res = NoRes

SpecAlerts == InitAlerts /\ [][Next]_vars

---------------------------------------------------------------------------
(* RateLimitMonitoring.cleanup and the per-minute metrics keys.  A key     *)
(* name "ratelimit:metrics:<type>:<minute>[:uniques]" is the record of its *)
(* parts; DEL removes the keys whose names it is given, character for      *)
(* character, and knows no patterns.                                       *)

MaxMinutes == 3

SweepSpan == 10

Types == {"ip", "user"}

RetentionChoices == {1, 2}

MetricsKey(type, minute) == [type |-> type, minute |-> minute, uniques |-> FALSE]

UniquesKey(type, minute) == [type |-> type, minute |-> minute, uniques |-> TRUE]

MinuteOf(now) == now \div MsPerMinute

(* DEL name ... : the named keys are gone, every other key stays *)
Del(ks, names) == ks \ names

(* the names cleanup queues on its pipeline *)
CleanupNames(now, retentionMinutes) ==
    UNION { { MetricsKey("*", now - i), UniquesKey("*", now - i) } :
            i \in retentionMinutes .. (retentionMinutes + SweepSpan - 1) }

(* recordRequest(identifier, type, info) for an info that raises no alert: *)
(* pipeline.exec() runs hincrby on the minute's hash and sadd on its       *)
(* uniques set, creating the keys that are not there                       *)
RecordRequestOk(type) ==
    /\ keyspace' = keyspace \cup { MetricsKey(type, MinuteOf(clock)),
                                   UniquesKey(type, MinuteOf(clock)) }
    /\ UNCHANGED << mwVars, sweep, batch, tasks, clears, lastClear, clock, zset, burst,
                    cbState, failures, lastFailureTime, threshold, timeout,
                    cfg, calls, started, metrics, alertLen, hist, consec >>

(* cleanup(retentionMinutes) up to its await: now, the pipeline's names *)
CleanupStart(retentionMinutes) ==
    /\ sweep.pc \in {"idle", "done"}
    /\ sweep' = [pc |-> "exec", now |-> MinuteOf(clock),
                 retention |-> retentionMinutes, ok |-> FALSE]
    /\ UNCHANGED << mwVars, keyspace, batch, tasks, clears, lastClear, clock, zset,
                    burst, cbState, failures, lastFailureTime, threshold,
                    timeout, cfg, calls, started, metrics, alertLen, hist,
                    consec >>

(* await pipeline.exec() succeeds: the store runs the queued DELs *)
CleanupExecOk ==
    /\ sweep.pc = "exec"
    /\ keyspace' = Del(keyspace, CleanupNames(sweep.now, sweep.retention))
    /\ sweep' = [sweep EXCEPT !.pc = "done", !.ok = TRUE]
    /\ UNCHANGED << mwVars, batch, tasks, clears, lastClear, clock, zset, burst,
                    cbState, failures, lastFailureTime, threshold, timeout,
                    cfg, calls, started, metrics, alertLen, hist, consec >>

(* await pipeline.exec() rejects: cleanup rejects, no key is touched *)
CleanupExecFail ==
    /\ sweep.pc = "exec"
    /\ sweep' = [sweep EXCEPT !.pc = "done", !.ok = FALSE]
    /\ UNCHANGED << mwVars, keyspace, batch, tasks, clears, lastClear, clock, zset,
                    burst, cbState, failures, lastFailureTime, threshold,
                    timeout, cfg, calls, started, metrics, alertLen, hist,
                    consec >>

(* a minute passes *)
MinuteTick ==
    /\ MinuteOf(clock) < MaxMinutes
    /\ clock' = clock + MsPerMinute
    /\ zset' = [k \in Keys |-> ExpireZset(zset[k], clock + MsPerMinute)]
    /\ burst' = [k \in Keys |-> ExpireBurst(burst[k], clock + MsPerMinute)]
    /\ UNCHANGED << extVars, cbState, failures, lastFailureTime, threshold,
                    timeout, cfg, calls, started, metrics, alertLen, hist,
                    consec >>

InitCleanup ==
    /\ InitCommon
    /\ threshold = THRESHOLD
    /\ timeout = TIMEOUT
    /\ cfg \in FaultConfigs

NextCleanup ==
    \/ \E t \in Types : RecordRequestOk(t)
    \/ \E r \in RetentionChoices : CleanupStart(r)
    \/ CleanupExecOk
    \/ CleanupExecFail
    \/ MinuteTick

SpecCleanup == InitCleanup /\ [][NextCleanup]_vars

---------------------------------------------------------------------------
(* The express middleware createRateLimiter(options) returns.  A request   *)
(* is a checkRateLimit call while the middleware awaits it; the            *)
(* continuation after the await runs before any other callback, so a call  *)
(* that has returned is answered before anything else happens.  Header     *)
(* and body values are modelled by the numbers their strings print.        *)

TOO_MANY_REQUESTS == 429

FIRST_FAILED_STATUS == 400

(* the status codes route handlers end their responses with *)
Statuses == {200, FIRST_FAILED_STATUS - 1, FIRST_FAILED_STATUS}

(* res.setHeader('X-RateLimit-Limit' / '-Remaining' / '-Reset', ...) *)
RateLimitHeaders(info) ==
    [limit |-> info.limit, remaining |-> info.remaining,
     reset |-> CeilDiv(info.resetTime, MsPerSecond)]

(* mutant: a handler that also passes the request on *)
DefaultHandlerForwards(r, info, now) ==
    [r EXCEPT !.status = TOO_MANY_REQUESTS,
              !.body = [resetIn |-> CeilDiv(info.resetTime - now, MsPerSecond),
                        limit |-> info.limit, remaining |-> info.remaining],
              !.nextCalls = r.nextCalls + 1,
              !.ended = TRUE]

(* defaultOptions.handler: res.status(429).json({error, resetIn, limit,    *)
(* remaining}); _next is not used                                          *)
DefaultHandler(r, info, now) ==
    [r EXCEPT !.status = TOO_MANY_REQUESTS,
              !.body = [resetIn |-> CeilDiv(info.resetTime - now, MsPerSecond),
                        limit |-> info.limit, remaining |-> info.remaining],
              !.ended = TRUE]

(* mutant: a response with status 400 counts as successful *)
RequestWasSuccessfulUpTo400(status) == status <= FIRST_FAILED_STATUS

(* defaultOptions.requestWasSuccessful: res.statusCode < 400 *)
RequestWasSuccessful(status) == status < FIRST_FAILED_STATUS

(* a checkRateLimit call has returned and its middleware has not resumed *)
MwReady == \E c \in Calls : calls[c].pc = "done"

(* the middleware after `await rateLimiter.checkRateLimit(key, ...)`:      *)
(* headers, then the handler for a denied request, or the res.end wrapper  *)
(* (if skipFailedRequests) and next() for an admitted one                  *)
MwRespond(c) ==
    /\ calls[c].pc = "done"
    /\ LET info == calls[c].result
           r == [NoRes EXCEPT !.key = calls[c].key, !.info = info,
                              !.headers = RateLimitHeaders(info)]
       IN  IF ~info.allowed
           THEN /\ res' = DefaultHandler(r, info, clock)
                /\ reqs' = reqs
           ELSE /\ res' = [r EXCEPT !.nextCalls = r.nextCalls + 1,
                                    !.forwarded = TRUE]
                /\ reqs' = Append(reqs, [key |-> calls[c].key,
                                         wrapped |-> opts.skipFailedRequests])
    /\ calls' = [calls EXCEPT ![c] = IdleCall]
    /\ UNCHANGED << opts, keyspace, sweep, batch, tasks, clears, lastClear,
                    clock, zset, burst, cbState, failures, lastFailureTime,
                    threshold, timeout, cfg, started, metrics, alertLen,
                    hist, consec >>

(* a route handler ends the response of a request that was passed on:      *)
(* res.end, which is the wrapper if one was installed; the wrapper calls   *)
(* clearRateLimit(key, {..., identifier: key}) without awaiting it when    *)
(* requestWasSuccessful says no, then the original end                     *)
MwEnd(i, status) ==
    /\ i \in DOMAIN reqs
    /\ LET q == reqs[i]
           refund == q.wrapped /\ ~RequestWasSuccessful(status)
       IN  /\ res' = [NoRes EXCEPT !.key = q.key, !.forwarded = TRUE,
                                   !.status = status, !.ended = TRUE,
                                   !.refunds = IF refund THEN 1 ELSE 0]
           /\ clears' = IF refund
                        THEN Append(clears, [id |-> q.key, cid |-> q.key])
                        ELSE clears
    /\ reqs' = RemoveAt(reqs, i)
    /\ UNCHANGED << opts, keyspace, sweep, batch, tasks, lastClear, clock,
                    zset, burst, cbState, failures, lastFailureTime,
                    threshold, timeout, cfg, calls, started, metrics,
                    alertLen, hist, consec >>

(* the requests that reach the middleware: at most MaxReqs, all of one    *)
(* client, so that getKey gives every one of them the same key             *)
MaxReqs == 2

MwKeys == {"k1"}

ReqSlots == 1 .. MaxReqs

InitMw ==
    /\ clock = 0
    /\ zset = [k \in Keys |-> NoZset]
    /\ burst = [k \in Keys |-> NoBurst]
    /\ cbState = "CLOSED"
    /\ failures = 0
    /\ lastFailureTime = 0
    /\ threshold = THRESHOLD
    /\ timeout = TIMEOUT
    /\ cfg \in FaultConfigs
    /\ calls = [c \in Calls |-> IdleCall]
    /\ started = 0
    /\ metrics = [m \in Minutes |-> [total |-> 0, blocked |-> 0, uniques |-> {}]]
    /\ alertLen = 0
    /\ hist = [k \in Keys |-> [n |-> 0, minNow |-> 0, lastAt |-> 0]]
    /\ consec = 0
    /\ batch = NoBatch
    /\ tasks = << >>
    /\ clears = << >>
    /\ lastClear = [id |-> "k1", cid |-> "k1", ok |-> FALSE]
    /\ keyspace = {}
    /\ sweep = NoSweep
    /\ opts \in { [skipFailedRequests |-> b] : b \in BOOLEAN }
    /\ reqs = << >>
    /\ res = NoRes

NextMw ==
    \/ \E c \in Calls : MwRespond(c)
    \/ ~MwReady /\ started < MaxReqs
                /\ \E c \in Calls, k \in MwKeys : CheckRateLimit(c, k, k)
    \/ ~MwReady /\ \E c \in Calls : LoadScriptOk(c)
    \/ ~MwReady /\ \E c \in Calls : EvalOk(c)
    \/ ~MwReady /\ \E c \in Calls : LpushOk(c)
    \/ ~MwReady /\ \E c \in Calls : LtrimOk(c)
    \/ ~MwReady /\ \E c \in Calls : ExecOk(c)
    \/ ~MwReady /\ \E i \in ReqSlots, s \in Statuses : MwEnd(i, s)
    \/ ~MwReady /\ \E i \in ClearSlots : ClearExecOk(i)
    \/ ~MwReady /\ Tick

SpecMw == InitMw /\ [][NextMw]_vars

(* the middleware with skipFailedRequests over a bucket that admits two    *)
(* requests per window, and over one that admits one and alerts on the     *)
(* next                                                                    *)
RefundConfigs == { Config(2, 1000, 1, 1, 1), Config(11, 1000, 11, 1, 1) }

InitRefund ==
    /\ clock = 0
    /\ zset = [k \in Keys |-> NoZset]
    /\ burst = [k \in Keys |-> NoBurst]
    /\ cbState = "CLOSED"
    /\ failures = 0
    /\ lastFailureTime = 0
    /\ threshold = THRESHOLD
    /\ timeout = TIMEOUT
    /\ cfg \in RefundConfigs
    /\ calls = [c \in Calls |-> IdleCall]
    /\ started = 0
    /\ metrics = [m \in Minutes |-> [total |-> 0, blocked |-> 0, uniques |-> {}]]
    /\ alertLen = 0
    /\ hist = [k \in Keys |-> [n |-> 0, minNow |-> 0, lastAt |-> 0]]
    /\ consec = 0
    /\ batch = NoBatch
    /\ tasks = << >>
    /\ clears = << >>
    /\ lastClear = [id |-> "k1", cid |-> "k1", ok |-> FALSE]
    /\ keyspace = {}
    /\ sweep = NoSweep
    /\ opts = [skipFailedRequests |-> TRUE]
    /\ reqs = << >>
    /\ res = NoRes

SpecRefund == InitRefund /\ [][NextMw]_vars

---------------------------------------------------------------------------
(* The evaluator over buckets that deny: one whose limit is 0, which       *)
(* denies on an empty window, and one that admits a single request per    *)
(* window                                                                  *)
DenyConfigs == { Config(0, 1000, 1, 0, 0), Config(11, 1000, 12, 0, 1) }

InitDeny ==
    /\ InitCommon
    /\ threshold = THRESHOLD
    /\ timeout = TIMEOUT
    /\ cfg \in DenyConfigs

SpecDeny == InitDeny /\ [][NextEval]_vars

---------------------------------------------------------------------------
(* The CircuitBreaker over a store that recovers: actions fail only before *)
(* the first tick, and from then on every action that settles succeeds.    *)
(* Time advances, calls keep coming while the run allows, and an action    *)
(* in flight settles.                                                      *)
Recovered == clock >= TickMs

ActionFailBeforeRecovery(c) ==
    /\ ~Recovered
    /\ ActionFail(c)

NextLive ==
    \/ \E c \in Calls : Execute(c)
    \/ \E c \in Calls : ActionOk(c)
    \/ \E c \in Calls : ActionFailBeforeRecovery(c)
    \/ Tick

SpecLive ==
    /\ InitCB
    /\ [][NextLive]_vars
    /\ WF_vars(Tick)
    /\ WF_vars(\E c \in Calls : Execute(c))
    /\ WF_vars(\E c \in Calls : ActionOk(c))

---------------------------------------------------------------------------
(* Checks, expiries and clears on buckets with the default multiplier,     *)
(* where a burst credit raises the limit above maxRequests                 *)
BurstConfigs == { Config(11, 1000, 12, 0, 1) }

InitBurst ==
    /\ InitCommon
    /\ threshold = THRESHOLD
    /\ timeout = TIMEOUT
    /\ cfg \in BurstConfigs

(* one caller's bucket: its checks, its clears, and the passing of time *)
NextBurst ==
    \/ \E c \in Calls, k \in MwKeys : CheckRateLimit(c, k, k)
    \/ \E c \in Calls : LoadScriptOk(c)
    \/ \E c \in Calls : EvalOk(c)
    \/ \E c \in Calls : LpushOk(c)
    \/ \E c \in Calls : LtrimOk(c)
    \/ \E c \in Calls : ExecOk(c)
    \/ \E k \in MwKeys : ClearRateLimit(k, k)
    \/ \E i \in ClearSlots : ClearExecOk(i)
    \/ Tick

SpecBurst == InitBurst /\ [][NextBurst]_vars

---------------------------------------------------------------------------
(* Properties of the evaluator, under SpecEval *)

(* call c's script is evaluated in this step *)
EvalStep(c) == calls[c].pc = "eval" /\ calls'[c].pc \in {"lpush", "exec"}

(* call c holds the reply of its evaluation *)
HasReply(c) == calls[c].pc \in {"lpush", "ltrim", "exec"}

(* C1: with cost = 1, under every interleaving of concurrent checks on a   *)
(* bucket, the window set never holds more than maxRequests *              *)
(* burstMultiplier members, and every admitting evaluation adds exactly    *)
(* one member to the set it counted (no two admissions from one count).    *)
C1_WindowBounded ==
    /\ [](Cost(cfg) = 1 =>
            \A k \in Keys :
                Len(zset[k].members) <= cfg.maxRequests * BurstMultiplier(cfg))
    /\ [][\A c \in Calls :
            (EvalStep(c) /\ calls'[c].info.allowed) =>
                LET k == calls[c].key
                    counted == Cardinality({i \in DOMAIN zset[k].members :
                                   zset[k].members[i] > calls[c].now - cfg.windowMs})
                IN  Len(zset'[k].members) = counted + 1]_vars

(* C1 witness: two checks in flight on one bucket, the window set at its   *)
(* bound and one of the two denied                                         *)
C1_Witness ==
    /\ Cost(cfg) = 1
    /\ Len(zset["k1"].members) = cfg.maxRequests * BurstMultiplier(cfg)
    /\ \E c, d \in Calls :
          /\ c # d
          /\ HasReply(c) /\ ~calls[c].info.allowed
          /\ calls[d].pc \notin {"idle", "done"}
          /\ calls[d].key = calls[c].key

(* C2: every RateLimitInfo a check returns has remaining <= limit, and     *)
(* remaining = 0 when it is not allowed.                                   *)
C2_RemainingWithinLimit ==
    \A c \in Calls :
        calls[c].pc = "done" =>
            /\ calls[c].result.remaining <= calls[c].result.limit
            /\ (~calls[c].result.allowed => calls[c].result.remaining = 0)

(* C3: on a fresh bucket checked with cost = 1 inside one windowMs, the    *)
(* first maxRequests evaluations admit and evaluation maxRequests + 1      *)
(* denies.                                                                 *)
C3_ExactlyMaxRequests ==
    \A c \in Calls :
        (HasReply(c) /\ Cost(cfg) = 1 /\ calls[c].span < cfg.windowMs) =>
            /\ (calls[c].seq <= cfg.maxRequests => calls[c].info.allowed)
            /\ (calls[c].seq = cfg.maxRequests + 1 => ~calls[c].info.allowed)

(* C4: an evaluation reports limit = maxRequests when the burst counter is *)
(* 0 at its start and min(maxRequests * burstMultiplier, maxRequests +     *)
(* credits) when it is positive, never more than maxRequests *             *)
(* burstMultiplier; and the burst counter grows only in an admitting       *)
(* evaluation that counted count * cost < maxRequests.                     *)
C4_EffectiveLimit ==
    [][/\ \A c \in Calls :
            EvalStep(c) =>
                LET credits == BurstCredits(burst[calls[c].key])
                    limit == calls'[c].info.limit
                    m == cfg.maxRequests
                    capped == IF m * BurstMultiplier(cfg) < m + credits
                              THEN m * BurstMultiplier(cfg) ELSE m + credits
                IN  /\ credits = 0 => limit = m
                    /\ credits > 0 => limit = capped
                    /\ limit <= m * BurstMultiplier(cfg)
       /\ \A k \in Keys :
            BurstCredits(burst'[k]) > BurstCredits(burst[k]) =>
                \E c \in Calls :
                    /\ EvalStep(c) /\ calls[c].key = k
                    /\ calls'[c].info.allowed
                    /\ (Len(zset'[k].members) - 1) * Cost(cfg) < cfg.maxRequests
      ]_vars

(* C4 witness: an evaluation whose limit the cap of maxRequests *          *)
(* burstMultiplier decided, with a credit in the counter again             *)
C4_Witness ==
    \E c \in Calls :
        /\ HasReply(c)
        /\ BurstMultiplier(cfg) = 1
        /\ calls[c].seq = 2
        /\ calls[c].info.limit = cfg.maxRequests
        /\ BurstCredits(burst[calls[c].key]) = 1

(* the reply and the bucket a check at call c's now leaves on a never-used *)
(* bucket                                                                  *)
FreshRun(c) ==
    Script(NoZset, NoBurst, calls[c].now, cfg.windowMs, cfg.maxRequests,
           Cost(cfg), BurstMultiplier(cfg), BurstTtl(cfg), clock)

LikeFresh(c) ==
    /\ calls'[c].info = BuildInfo(FreshRun(c).reply)
    /\ zset'[calls[c].key] = FreshRun(c).z
    /\ burst'[calls[c].key] = FreshRun(c).b

(* call c's script is evaluated at least windowMs after the bucket's last  *)
(* evaluation                                                              *)
EvalAfterIdle(c) ==
    /\ EvalStep(c)
    /\ hist[calls[c].key].n > 0
    /\ calls[c].now - hist[calls[c].key].lastAt >= cfg.windowMs

(* C5 as claimed: for every windowMs and burst TTL, a check made at least  *)
(* windowMs after the bucket's last check gives the result and the bucket  *)
(* state of the first check on a never-used bucket.                        *)
C5_IdleIsFresh ==
    [][\A c \in Calls : EvalAfterIdle(c) => LikeFresh(c)]_vars

(* C5 amended: the same, when the burst TTL is no longer than windowMs.    *)
C5_IdleIsFreshWithinTtl ==
    [][\A c \in Calls :
          (EvalAfterIdle(c) /\ BurstTtl(cfg) * MsPerSecond <= cfg.windowMs)
              => LikeFresh(c)]_vars

(* C5 witness: a second evaluation, windowMs after the first, with a burst *)
(* TTL of windowMs                                                         *)
C5_Witness ==
    \E c \in Calls :
        /\ HasReply(c)
        /\ calls[c].seq = 2
        /\ calls[c].gap >= cfg.windowMs
        /\ BurstTtl(cfg) * MsPerSecond <= cfg.windowMs
        /\ calls[c].info.allowed

---------------------------------------------------------------------------
(* Properties of the CircuitBreaker, under SpecCB *)

(* execute() is called in this step and call c is the call *)
ExecuteStep(c) ==
    /\ started' = started + 1
    /\ calls[c].pc \in {"idle", "done"}
    /\ calls'[c].pc \in {"action", "done"}

(* call c's action settles in this step and execute() returns *)
ActionEnds(c) == calls[c].pc = "action" /\ calls'[c].pc = "done"

(* the object fallback() builds for a call that read now *)
FallbackValue(now) ==
    [allowed |-> TRUE, remaining |-> 1, resetTime |-> now + cfg.windowMs,
     limit |-> cfg.maxRequests]

(* C6: when the threshold-th failure in a row (counted from a fresh or     *)
(* reset breaker, or from the last success) is recorded the state becomes  *)
(* OPEN; and an execute() called in state OPEN less than the cooldown      *)
(* after lastFailureTime returns fallback() at once: the action is never   *)
(* started, and failures, state and lastFailureTime stay as they were.     *)
C6_OpensAndShortCircuits ==
    [][/\ (consec' > consec /\ consec' >= threshold) => cbState' = "OPEN"
       /\ \A c \in Calls :
            (/\ ExecuteStep(c)
             /\ cbState = "OPEN"
             /\ clock - lastFailureTime < timeout)
            => /\ calls'[c].pc = "done"
               /\ calls'[c].result = FallbackValue(clock)
               /\ failures' = failures
               /\ cbState' = cbState
               /\ lastFailureTime' = lastFailureTime
      ]_vars

(* C6 witness: threshold failures in a row opened the breaker and a call   *)
(* made before the cooldown ran out got the fallback                       *)
C6_Witness ==
    /\ cbState = "OPEN"
    /\ consec >= threshold
    /\ \E c \in Calls :
          /\ calls[c].pc = "done"
          /\ calls[c].outcome = "open"
          /\ calls[c].result = FallbackValue(calls[c].now)

(* the first half of C7: execute() called in state OPEN with the cooldown  *)
(* elapsed moves to HALF_OPEN and starts the action                        *)
TrialStarts ==
    \A c \in Calls :
        (/\ ExecuteStep(c)
         /\ cbState = "OPEN"
         /\ clock - lastFailureTime >= timeout)
        => /\ cbState' = "HALF_OPEN"
           /\ calls'[c].pc = "action"
           /\ calls'[c].trial

(* what C7 says of the end of the trial call c *)
TrialEnds(c) ==
    /\ calls'[c].outcome = "ok" => (cbState' = "CLOSED" /\ failures' = 0)
    /\ calls'[c].outcome = "failed" =>
          /\ cbState' = "OPEN"
          /\ failures' = failures + 1
          /\ lastFailureTime' = clock

(* C7 as claimed: execute() called in state OPEN with the cooldown elapsed *)
(* moves to HALF_OPEN and invokes the action; when that action succeeds    *)
(* the state becomes CLOSED with failures = 0, when it fails the state     *)
(* becomes OPEN with failures + 1 and lastFailureTime refreshed.           *)
C7_TrialOutcome ==
    [][/\ TrialStarts
       /\ \A c \in Calls :
            (ActionEnds(c) /\ calls[c].trial) => TrialEnds(c)]_vars

(* C7 amended: the same, for a trial whose action settles while the state  *)
(* is still HALF_OPEN (no other call's outcome and no reset() came in      *)
(* between).                                                               *)
C7_TrialOutcomeWhileHalfOpen ==
    [][/\ TrialStarts
       /\ \A c \in Calls :
            (ActionEnds(c) /\ calls[c].trial /\ cbState = "HALF_OPEN")
                => TrialEnds(c)]_vars

(* C7 witness: a trial call has returned its action's value and closed the *)
(* breaker that an earlier failure had opened                              *)
C7_Witness ==
    /\ cbState = "CLOSED"
    /\ failures = 0
    /\ lastFailureTime # 0
    /\ \E c \in Calls :
          /\ calls[c].pc = "done"
          /\ calls[c].trial
          /\ calls[c].outcome = "ok"

(* C8: execute() always returns: when the action fails, in any state,      *)
(* failures grows by one, lastFailureTime becomes the current time and the *)
(* value returned is fallback()'s; when the action succeeds the value      *)
(* returned is the action's.                                               *)
C8_NeverPropagates ==
    [][\A c \in Calls :
          (calls[c].pc = "action" /\ calls'[c] # calls[c]) =>
              /\ calls'[c].pc = "done"
              /\ \/ /\ calls'[c].outcome = "failed"
                    /\ failures' = failures + 1
                    /\ lastFailureTime' = clock
                    /\ calls'[c].result = FallbackValue(calls[c].now)
                 \/ /\ calls'[c].outcome = "ok"
                    /\ calls'[c].result = ActionValue]_vars

(* C8 witness: an action failed while the breaker was HALF_OPEN and the    *)
(* call returned the fallback                                              *)
C8_Witness ==
    \E c \in Calls :
        /\ calls[c].pc = "done"
        /\ calls[c].trial
        /\ calls[c].outcome = "failed"
        /\ calls[c].result = FallbackValue(calls[c].now)
        /\ failures > threshold

---------------------------------------------------------------------------
(* Properties of checkRateLimit over a failing store, under Spec *)

(* C9: checkRateLimit always returns, and a call whose store call failed,  *)
(* whose script could not be loaded or which isOpen() turned away returns  *)
(* exactly {allowed: true, remaining: 1, resetTime: now + windowMs,        *)
(* limit: maxRequests}.                                                    *)
C9_FailOpenExact ==
    \A c \in Calls :
        /\ calls[c].pc = "done" => calls[c].outcome \in {"ok", "failed", "open"}
        /\ (calls[c].pc = "done" /\ calls[c].outcome \in {"failed", "open"}) =>
              calls[c].result =
                  [allowed |-> TRUE, remaining |-> 1,
                   resetTime |-> calls[c].now + cfg.windowMs,
                   limit |-> cfg.maxRequests]

(* C9 witness: a store failure opened the breaker and the next call was    *)
(* answered fail-open                                                      *)
C9_Witness ==
    \E c \in Calls :
        /\ calls[c].pc = "done"
        /\ calls[c].outcome = "open"
        /\ calls[c].result.allowed
        /\ calls[c].result.remaining = 1
        /\ failures >= threshold

(* C10 as claimed: once the evaluator has answered, the call returns the   *)
(* evaluator's decision and the breaker is left as onSuccess() leaves it,  *)
(* whether recordRequest resolves or rejects.                              *)
C10_MonitoringIndependent ==
    [][\A c \in Calls :
          (HasReply(c) /\ calls'[c].pc = "done") =>
              /\ calls'[c].result = calls[c].info
              /\ cbState' = OnSuccessState(cbState)
              /\ failures' = OnSuccessFailures(cbState, failures)
              /\ lastFailureTime' = lastFailureTime]_vars

---------------------------------------------------------------------------
(* Properties of batchCheckRateLimit, under SpecBatch *)

(* C11 as claimed: a batchCheckRateLimit call that met a failing store     *)
(* (loadScript or pipeline.exec rejected, or the breaker was open) does    *)
(* not raise and returns a map that gives every input identifier           *)
(* {allowed: true, remaining: 1, resetTime: now + windowMs,                *)
(* limit: maxRequests}.                                                    *)
C11_BatchFailOpen ==
    (batch.pc = "done" /\ batch.outcome \in {"raised", "failed", "open"}) =>
        /\ batch.outcome # "raised"
        /\ DOMAIN batch.result = Range(batch.ids)
        /\ \A id \in Range(batch.ids) :
              batch.result[id] =
                  [allowed |-> TRUE, remaining |-> 1,
                   resetTime |-> batch.now + cfg.windowMs,
                   limit |-> cfg.maxRequests]

---------------------------------------------------------------------------
(* Properties of clearRateLimit, under SpecClear *)

(* a clearRateLimit call settles in this step *)
ClearSettles == Len(clears') < Len(clears)

(* C12 as claimed: when clearRateLimit(identifier, config) has succeeded,  *)
(* the window set and the burst counter of the bucket that                 *)
(* checkRateLimit(identifier, config) uses are absent (so the next check   *)
(* on it is the check of a never-used bucket).                             *)
C12_ClearMakesFresh ==
    [][(ClearSettles /\ lastClear'.ok) =>
          LET key == GetKeyPrefix([identifier |-> lastClear'.cid])
          IN  zset'[key] = NoZset /\ burst'[key] = NoBurst]_vars

---------------------------------------------------------------------------
(* Properties of RateLimitMonitoring.recordRequest, under Spec *)

(* C13 as claimed: every recordRequest call is counted in its minute's     *)
(* bucket, total + 1, blocked + 1 when the info is not allowed, the        *)
(* identifier in the distinct-identifier set, also when the call's alert   *)
(* append (lpush or ltrim) fails; so the bucket holds the number of calls, *)
(* the number of denied calls and every identifier.                        *)
C13_EveryCallCounted ==
    [][\A c \in Calls :
          (/\ HasReply(c)
           /\ calls'[c].pc = "done"
           /\ calls'[c].outcome = "ok" \/ calls[c].pc \in {"lpush", "ltrim"})
          => LET m == calls[c].minute
             IN  /\ metrics'[m].total = metrics[m].total + 1
                 /\ metrics'[m].blocked = metrics[m].blocked
                        + (IF calls[c].info.allowed THEN 0 ELSE 1)
                 /\ calls[c].key \in metrics'[m].uniques]_vars

---------------------------------------------------------------------------
(* Properties of RateLimitMonitoring.recordAlert, under SpecAlerts *)

(* C14 as claimed: the alert list of a type never holds more than 1000     *)
(* entries, in any reachable state, the states between the lpush and the   *)
(* ltrim of a recordAlert call included.                                   *)
C14_AlertsCapped == alertLen <= AlertsKept

---------------------------------------------------------------------------
(* Properties of RateLimitMonitoring.cleanup, under SpecCleanup *)

(* C15 as claimed: when cleanup(retentionMinutes) completes without error, *)
(* no per-minute metrics key (hash or uniques set) of any type remains     *)
(* whose minute is older than now - retentionMinutes.                      *)
C15_CleanupRemovesOld ==
    [][(sweep.pc = "exec" /\ sweep'.pc = "done" /\ sweep'.ok) =>
          \A k \in keyspace' : k.minute >= sweep.now - sweep.retention]_vars

---------------------------------------------------------------------------
(* Properties of the middleware, under SpecMw *)

(* C16: the middleware either rejects or forwards, never both.  When the   *)
(* check's info has allowed = false the response ends with status 429, a   *)
(* body carrying the limit and the retry-after seconds computed from       *)
(* resetTime, and next() is not called; when allowed = true the limit,     *)
(* remaining and reset headers are set and next() is called exactly once.  *)
C16_RejectOrForward ==
    [][/\ \A c \in Calls :
             calls[c].pc = "done" =>
                 LET info == calls[c].result
                 IN  IF ~info.allowed
                     THEN /\ res'.status = TOO_MANY_REQUESTS
                          /\ res'.ended
                          /\ res'.body.limit = info.limit
                          /\ res'.body.resetIn =
                                 CeilDiv(info.resetTime - clock, MsPerSecond)
                          /\ res'.nextCalls = 0
                          /\ ~res'.forwarded
                          /\ reqs' = reqs
                     ELSE /\ res'.headers =
                                 [limit |-> info.limit,
                                  remaining |-> info.remaining,
                                  reset |-> CeilDiv(info.resetTime, MsPerSecond)]
                          /\ res'.nextCalls = 1
                          /\ res'.forwarded
                          /\ ~res'.ended
                          /\ Len(reqs') = Len(reqs) + 1
       /\ ~(res'.status = TOO_MANY_REQUESTS /\ res'.forwarded)]_vars

C16_Witness ==
    /\ res.status = TOO_MANY_REQUESTS
    /\ res.ended
    /\ ~res.info.allowed
    /\ res.nextCalls = 0
    /\ Len(reqs) > 0

(* a step in which clearRateLimit is called *)
ClearCalled == Len(clears') > Len(clears)

(* a step in which a response that went through next() ends *)
ForwardedEnds == Len(reqs') < Len(reqs)

(* C17: with skipFailedRequests, clearRateLimit is called when and only    *)
(* when a request was admitted and its response ends unsuccessful (status  *)
(* 400 or more); it is never called for a denied request, for a            *)
(* successful response, or with the option disabled.                       *)
C17_RefundOnlyFailedAdmitted ==
    [][/\ ClearCalled <=>
             (/\ opts.skipFailedRequests
              /\ ForwardedEnds
              /\ res'.forwarded
              /\ res'.status >= FIRST_FAILED_STATUS)
       /\ ClearCalled =>
             clears' = Append(clears, [id |-> res'.key, cid |-> res'.key])]_vars

C17_Witness ==
    /\ opts.skipFailedRequests
    /\ res.ended
    /\ res.forwarded
    /\ res.status >= FIRST_FAILED_STATUS
    /\ res.refunds = 1
    /\ Len(clears) > 0

---------------------------------------------------------------------------
(* Properties of the burst counter, under SpecEval *)

(* the entries an evaluation of call c at its now counts *)
CountedBy(c) ==
    Cardinality({i \in DOMAIN zset[calls[c].key].members :
                    zset[calls[c].key].members[i] > calls[c].now - cfg.windowMs})

(* a step in which call c is admitted within the normal budget *)
UnderBudgetAdmission(c) ==
    /\ EvalStep(c)
    /\ calls'[c].info.allowed
    /\ CountedBy(c) * Cost(cfg) < cfg.maxRequests

(* C18 as claimed: every admitting evaluation with count * cost <          *)
(* maxRequests leaves the burst counter exactly one higher than it was     *)
(* before the evaluation (so the counter can rise to any value).           *)
C18_CreditPerAdmission ==
    [][\A c \in Calls :
          UnderBudgetAdmission(c) =>
              BurstCredits(burst'[calls[c].key]) =
                  BurstCredits(burst[calls[c].key]) + 1]_vars

(* C18 as the script has it: an evaluation that finds credits takes one    *)
(* before it adds one, so an admitting evaluation with count * cost <      *)
(* maxRequests leaves the counter at 1 (one higher when it was absent or   *)
(* 0, the same when it was 1), and the counter is never above 1.           *)
C18_CreditAtMostOne ==
    [][/\ \A k \in Keys : BurstCredits(burst'[k]) \in {0, 1}
       /\ \A c \in Calls :
             UnderBudgetAdmission(c) =>
                 /\ BurstCredits(burst'[calls[c].key]) = 1
                 /\ BurstCredits(burst'[calls[c].key]) =
                        BurstCredits(burst[calls[c].key])
                            + (IF BurstCredits(burst[calls[c].key]) = 0
                               THEN 1 ELSE 0)]_vars

(* C18 witness: the second evaluation of a bucket, admitted within the     *)
(* budget while the credit of the first was alive, and the counter at 1    *)
C18_Witness ==
    \E c \in Calls :
        /\ HasReply(c)
        /\ calls[c].info.allowed
        /\ calls[c].seq = 2
        /\ calls[c].span < BurstTtl(cfg) * MsPerSecond
        /\ Len(zset[calls[c].key].members) = 2
        /\ Cost(cfg) < cfg.maxRequests
        /\ BurstCredits(burst[calls[c].key]) = 1

---------------------------------------------------------------------------
(* Properties of a bucket whose cost exceeds maxRequests, under SpecEval *)

(* C19 as claimed: with cost > maxRequests a bucket can reach a state from *)
(* which every later check is denied however much time passes.  The only   *)
(* states that could be such are those in which a check has been denied:   *)
(* while the denied check's reply is held, every later evaluation of the   *)
(* bucket is denied.                                                       *)
C19_DenialIsPermanent ==
    [][\A c, d \in Calls :
          (/\ Cost(cfg) > cfg.maxRequests
           /\ HasReply(d) /\ ~calls[d].info.allowed
           /\ calls[c].key = calls[d].key
           /\ EvalStep(c))
          => ~calls'[c].info.allowed]_vars

(* C19 as the script has it: with cost > maxRequests a check is admitted   *)
(* when and only when no entry of the window set is newer than             *)
(* now - windowMs; a denial ends as soon as the one admitted entry is      *)
(* windowMs old, so no denial is permanent.                                *)
C19_AdmittedOncePerWindow ==
    [][\A c \in Calls :
          (Cost(cfg) > cfg.maxRequests /\ EvalStep(c)) =>
              (calls'[c].info.allowed <=> CountedBy(c) = 0)]_vars

(* C19 witness: a check admitted on a bucket after a denied one *)
C19_Witness ==
    \E c, d \in Calls :
        /\ Cost(cfg) > cfg.maxRequests
        /\ HasReply(c) /\ calls[c].info.allowed
        /\ HasReply(d) /\ ~calls[d].info.allowed
        /\ calls[c].key = calls[d].key
        /\ calls[c].seq > calls[d].seq

---------------------------------------------------------------------------
(* Properties of the purge, under SpecEval *)

(* the entries of call c's window set whose score is at or after           *)
(* now - windowMs                                                          *)
AtOrAfterBound(c) ==
    Cardinality({i \in DOMAIN zset[calls[c].key].members :
                    zset[calls[c].key].members[i] >= calls[c].now - cfg.windowMs})

(* C20 as claimed: an evaluation at now counts exactly the entries with    *)
(* score >= now - windowMs; older entries are removed before counting and  *)
(* every entry at or after the bound survives the purge (the set then      *)
(* holds them, and the new entry if the check is admitted).                *)
C20_PurgeStrictlyOlder ==
    [][\A c \in Calls :
          EvalStep(c) =>
              Len(zset'[calls[c].key].members) =
                  AtOrAfterBound(c) + (IF calls'[c].info.allowed THEN 1 ELSE 0)]_vars

---------------------------------------------------------------------------
(* Properties of the deny branch, under SpecDeny *)

(* the scores of call c's window set that the purge at its now leaves *)
Surviving(c) ==
    { zset[calls[c].key].members[i] : i \in
        { j \in DOMAIN zset[calls[c].key].members :
            zset[calls[c].key].members[j] > calls[c].now - cfg.windowMs } }

SetMin(S) == CHOOSE x \in S : \A y \in S : x <= y

(* C21: a denying evaluation inserts no window entry and returns resetTime *)
(* = score of the oldest surviving entry + windowMs when the window set is *)
(* non-empty and now + windowMs otherwise; resetTime is strictly later     *)
(* than the check's now in both cases.                                     *)
C21_DenyReply ==
    [][\A c \in Calls :
          (EvalStep(c) /\ ~calls'[c].info.allowed) =>
              /\ Len(zset'[calls[c].key].members) = CountedBy(c)
              /\ \A i \in DOMAIN zset'[calls[c].key].members :
                    zset'[calls[c].key].members[i] \in Surviving(c)
              /\ calls'[c].info.resetTime =
                     (IF Surviving(c) = {}
                      THEN calls[c].now + cfg.windowMs
                      ELSE SetMin(Surviving(c)) + cfg.windowMs)
              /\ calls'[c].info.resetTime > calls[c].now]_vars

(* C21 witness: a check denied on a non-empty window whose oldest entry is *)
(* older than the check's now                                              *)
C21_Witness ==
    \E c \in Calls :
        /\ HasReply(c)
        /\ ~calls[c].info.allowed
        /\ zset[calls[c].key].members # << >>
        /\ Head(zset[calls[c].key].members) < calls[c].now
        /\ calls[c].info.resetTime = Head(zset[calls[c].key].members) + cfg.windowMs

---------------------------------------------------------------------------
(* Properties of the store calls of a check, under SpecEval *)

(* C22 as claimed: a checkRateLimit call made while the breaker is not     *)
(* OPEN executes the evaluator script against the store exactly once (on   *)
(* the bucket's window key and burst key): a call that holds the reply of  *)
(* its evaluation has had the store run the script once.                   *)
C22_ScriptOncePerCheck ==
    \A c \in Calls : HasReply(c) => ScriptRuns(calls[c].pc) = 1

---------------------------------------------------------------------------
(* Properties of concurrent execute calls, under SpecCB *)

(* a trial action is in flight: the call whose isOpen() left OPEN has not  *)
(* settled                                                                 *)
TrialInFlight == \E d \in Calls : calls[d].trial /\ calls[d].pc = "action"

(* a step in which execute is called and becomes call c *)
ExecuteCalled(c) == calls[c].pc \in {"idle", "done"} /\ started' = started + 1

(* C23 as claimed: while the breaker is HALF_OPEN and a trial action is in *)
(* flight, an execute call does not invoke its own action (at most one     *)
(* action is in flight in state HALF_OPEN).                                *)
C23_SingleTrial ==
    [][\A c \in Calls :
          (cbState = "HALF_OPEN" /\ TrialInFlight /\ ExecuteCalled(c))
              => calls'[c].pc # "action"]_vars

---------------------------------------------------------------------------
(* Properties of the calls made while the breaker is open, under SpecBatch *)

(* a step in which batchCheckRateLimit is called *)
BatchCalled == batch.pc \in {"idle", "done"} /\ started' > started /\ batch' # batch

(* C24 as claimed: while the breaker is OPEN and less than the cooldown    *)
(* has passed since the last failure, a checkRateLimit or                  *)
(* batchCheckRateLimit call issues no store call for admission: it is not  *)
(* left waiting for a script load or an evaluation.                        *)
C24_NoStoreCallWhileOpen ==
    [][IsOpen(cbState, clock, lastFailureTime, timeout) =>
          /\ \A c \in Calls :
                ExecuteCalled(c) => calls'[c].pc \notin {"load", "eval"}
          /\ BatchCalled => batch'.pc \notin {"load", "exec"}]_vars

---------------------------------------------------------------------------
(* Properties of the alerts of denied checks, under SpecEval *)

(* C25 as claimed: every checkRateLimit call that is denied with limit >=  *)
(* 1, the monitoring store operations succeeding, appends a HIGH_USAGE     *)
(* alert for its identifier: after its evaluation the call goes on to the  *)
(* lpush of recordAlert.                                                   *)
C25_DeniedRaisesAlert ==
    [][\A c \in Calls :
          (/\ EvalStep(c)
           /\ ~calls'[c].info.allowed
           /\ calls'[c].info.limit >= 1)
          => calls'[c].pc = "lpush"]_vars

---------------------------------------------------------------------------
(* Properties of the breaker's fields, under SpecCB *)

(* C26: in every reachable state of a CircuitBreaker with threshold >= 1,  *)
(* with execute calls in flight and reset interleaved: CLOSED implies      *)
(* failures < threshold, OPEN or HALF_OPEN implies failures >= threshold.  *)
C26_StateMatchesFailures ==
    threshold >= 1 =>
        /\ cbState = "CLOSED" => failures < threshold
        /\ cbState \in {"OPEN", "HALF_OPEN"} => failures >= threshold

(* C26 witness: the breaker open with more failures than the threshold     *)
(* (an action begun before it opened has failed since) and an action still *)
(* in flight                                                               *)
C26_Witness ==
    /\ threshold >= 1
    /\ cbState \in {"OPEN", "HALF_OPEN"}
    /\ failures > threshold
    /\ \E c \in Calls : calls[c].pc = "action"

---------------------------------------------------------------------------
(* Properties of the failure count, under SpecCB *)

(* C27: while CLOSED a successful action leaves the failure count as it    *)
(* was; every failed action adds one to it, and the breaker is OPEN as     *)
(* soon as the count, which only a HALF_OPEN success or reset clears,      *)
(* reaches the threshold, successes between the failures notwithstanding.  *)
C27_FailuresAccumulate ==
    [][\A c \in Calls :
          ActionEnds(c) =>
              /\ (calls'[c].outcome = "ok" /\ cbState = "CLOSED") =>
                     (failures' = failures /\ cbState' = "CLOSED")
              /\ calls'[c].outcome = "failed" =>
                     /\ failures' = failures + 1
                     /\ failures' >= threshold => cbState' = "OPEN"
                     /\ failures' < threshold => cbState' = cbState]_vars

(* C27 witness: the breaker opened by failures that were not in a row *)
C27_Witness ==
    /\ cbState = "OPEN"
    /\ failures = threshold
    /\ consec < threshold
    /\ consec >= 1

---------------------------------------------------------------------------
(* Properties of the breaker's recovery, under SpecLive *)

(* the breaker is not CLOSED and one more trial can happen: a trial is in  *)
(* flight, or the cooldown is over and the run has a call left             *)
TrialPossible ==
    \/ cbState = "HALF_OPEN"
    \/ /\ cbState = "OPEN"
       /\ clock - lastFailureTime >= timeout
       /\ started < MaxChecks

(* C28: the breaker does not stay OPEN once the store has recovered: when  *)
(* every action that settles succeeds, time advances and execute keeps     *)
(* being called, the breaker reaches CLOSED, and it then stays CLOSED.     *)
C28_ClosesAfterRecovery ==
    /\ (Recovered /\ TrialPossible) ~> (cbState = "CLOSED")
    /\ [](Recovered /\ cbState = "CLOSED" => [](cbState = "CLOSED"))

(* C28 witness: after the recovery the trial call has succeeded and closed *)
(* the breaker                                                             *)
C28_Witness ==
    /\ Recovered
    /\ cbState = "CLOSED"
    /\ failures = 0
    /\ \E c \in Calls :
          calls[c].pc = "done" /\ calls[c].trial /\ calls[c].outcome = "ok"

---------------------------------------------------------------------------
(* Properties of the burst counter under checks, expiries and clears,      *)
(* under SpecBurst                                                         *)

(* C29: in every reachable state the burst counter of every bucket is      *)
(* neither negative nor greater than 1, whatever checks, expiries and      *)
(* clears have happened; so the limit an evaluation reports is at most     *)
(* maxRequests + 1.                                                        *)
C29_CounterZeroOrOne ==
    /\ \A k \in Keys : burst[k].exists => burst[k].val \in {0, 1}
    /\ \A c \in Calls :
          HasReply(c) => calls[c].info.limit <= cfg.maxRequests + 1

(* C29 witness: after a clear, a bucket whose counter is 1 again and a     *)
(* check that reported the limit maxRequests + 1                           *)
C29_Witness ==
    /\ lastClear.ok
    /\ \E c \in Calls :
          /\ HasReply(c)
          /\ calls[c].info.limit = cfg.maxRequests + 1
    /\ \E k \in Keys : burst[k].exists /\ burst[k].val = 1

---------------------------------------------------------------------------
(* Refunds of failed requests, under SpecRefund *)

(* the pipeline of some clearRateLimit resolved in this step *)
ClearExecuted == Len(clears') < Len(clears) /\ lastClear'.ok

(* C30: with skipFailedRequests, the refund that one failed request        *)
(* triggers gives back that request's consumption only: the requests       *)
(* admitted earlier in the same window still count, so the refund takes    *)
(* at most one entry out of the caller's window.  clearRateLimit deletes   *)
(* the whole window key, and with it every earlier admission.              *)
C30_RefundGivesBackOne ==
    [][ (opts.skipFailedRequests /\ ClearExecuted)
            => \A k \in MwKeys :
                   Len(zset'[k].members) >= Len(zset[k].members) - 1 ]_vars

===========================================================================
